---- MODULE Spec2Model ----
(***************************************************************************)
(* The code index interface of the BEAM emulator (erts/emulator/beam/      *)
(* code_ix.h): the code write permission, the staging life cycle and the   *)
(* three code indices, with the dispatch tables that the indices select    *)
(* and the readers (BIFs) that cache the active index.                     *)
(*                                                                         *)
(* code_ix.h declares the operations and documents their contracts; the    *)
(* bodies are in code_ix.c.  An operation is modelled from its header      *)
(* comment where the comment decides its behaviour, and from the design    *)
(* description otherwise.                                                  *)
(***************************************************************************)
EXTENDS Integers, FiniteSets, Sequences, TLC

(* ---------------------------------------------------------------- bounds *)
NumProcs == 3
NumAux == 1
NumCallables == 1
NumReaders == 1
MaxEntry == 2
\* Words of the code area the function headers are laid out in.
MaxPtr == 15
\* Width of the machine word the model computes with (the emulator's is 32 or 64).
WordBits == 12

(* ------------------------------------------------------------- constants *)
ERTS_NUM_CODE_IX == 3

\* The size of a dispatch table's addresses array, by build; the BEAMASM build
\* keeps one more slot, which no code index selects.
ERTS_ADDRESSV_SIZE(beamasm) == IF beamasm THEN ERTS_NUM_CODE_IX + 1 ELSE ERTS_NUM_CODE_IX
ERTS_SAVE_CALLS_CODE_IX == ERTS_ADDRESSV_SIZE(TRUE) - 1
CodeIx == 0 .. (ERTS_NUM_CODE_IX - 1)

Procs == {<<"proc", i>> : i \in 1 .. NumProcs}
AuxWorks == {<<"aux", i>> : i \in 1 .. NumAux}
Contexts == Procs \cup AuxWorks
NULL == <<>>

Callables == 1 .. NumCallables
Readers == 1 .. NumReaders
Undefined == 0

VARIABLES
    the_active_code_index,   \* erts_atomic32_t the_active_code_index
    the_staging_code_index,  \* erts_atomic32_t the_staging_code_index
    code_writing_process,    \* the holder of the code write permission, or NULL
    code_write_queue,        \* suspended processes and registered aux work
    aux_work,                \* aux work scheduled by a release, not yet run
    st,                      \* what each context is doing
    lifecycle,               \* "Idle", "Staged" or "Ended"
    addresses,               \* addresses[x][ix]: ErtsDispatchable of callable x
    rd,                      \* rd[r]: <<>> or <<cached ix, snapshot, last read>>
    next_entry,              \* the next fresh entry point the loader hands out
    staged,                  \* entry points stored since the last start
    last_stored,             \* callable -> entry point last stored since start
    expect,                  \* callable -> entry point published by the commits
    discarded,               \* entry points stored in a staging that was aborted
    before_commit,           \* <<>> or <<active, staging>> before the last commit
    grants,                  \* seizes that returned true since the last release
    aux_runs,                \* aux -> runs of its func since its last seize call
    last_op,                 \* the operation that led to this state
    fault,                   \* "none", or the call that was a programming error
    arg,                     \* the argument of the inline function under check
    res                      \* the values that the inline functions returned for it

vars == <<the_active_code_index, the_staging_code_index, code_writing_process,
          code_write_queue, aux_work, st, lifecycle, addresses, rd, next_entry,
          staged, last_stored, expect, discarded, before_commit, grants,
          aux_runs, last_op, fault, arg, res>>

gate_vars == <<code_writing_process, code_write_queue, aux_work, st, grants, aux_runs>>
ix_vars == <<the_active_code_index, the_staging_code_index, before_commit>>
table_vars == <<addresses, next_entry, staged, last_stored, expect, discarded>>
call_vars == <<fault, arg, res>>

(* ------------------------------------------------------------ code index *)
\* (mutant) the accessor reads the other atomic.
ActiveIxReadsStaging == the_staging_code_index

erts_active_code_ix == the_active_code_index

\* (mutant) the accessor reads the other atomic.
StagingIxReadsActive == the_active_code_index

erts_staging_code_ix == the_staging_code_index

\* The third code index: the one that is neither active nor staging.
RetiringIx == CHOOSE i \in CodeIx : i # erts_active_code_ix /\ i # erts_staging_code_ix

InFlight(r) == Len(rd[r]) > 0
CachedIx(r) == rd[r][1]
Snapshot(r) == rd[r][2]
LastRead(r) == rd[r][3]

\* No BIF that is still running cached index ix.
Quiescent(ix) == \A r \in Readers : InFlight(r) => CachedIx(r) # ix

(* ------------------------------------------------------------------ init *)
erts_code_ix_init ==
    /\ the_active_code_index = 0
    /\ the_staging_code_index = 1
    /\ code_writing_process = NULL
    /\ code_write_queue = {}
    /\ aux_work = {}
    /\ st = [c \in Contexts |-> "running"]
    /\ lifecycle = "Idle"
    /\ addresses = [x \in Callables |-> [i \in CodeIx |-> Undefined]]
    /\ rd = [r \in Readers |-> <<>>]
    /\ next_entry = 1
    /\ staged = {}
    /\ last_stored = <<>>
    /\ expect = [x \in Callables |-> Undefined]
    /\ discarded = {}
    /\ before_commit = <<>>
    /\ grants = 0
    /\ aux_runs = [a \in AuxWorks |-> 0]
    /\ last_op = "init"

Init ==
    /\ erts_code_ix_init
    /\ fault = "none"
    /\ arg = <<>>
    /\ res = <<>>

(* ------------------------------------------------- code write permission *)
\* (mutant) the seize does not look at the current holder.
SeizeWithoutCheck(c_p) ==
    /\ fault = "none"
    /\ st[c_p] \in {"running", "resumed"}
    /\ code_writing_process' = c_p
    /\ st' = [st EXCEPT ![c_p] = "holding"]
    /\ grants' = grants + 1
    /\ last_op' = "try_seize_true"
    /\ UNCHANGED <<code_write_queue, aux_work, aux_runs, lifecycle, rd>>
    /\ UNCHANGED ix_vars
    /\ UNCHANGED table_vars
    /\ UNCHANGED call_vars

\* (mutant) the seize does not look at who calls: the holder is queued like any
\* other caller that finds the permission taken.
SeizeQueuesHolder(c_p) ==
    /\ fault = "none"
    /\ st[c_p] \in {"running", "resumed", "holding"}
    /\ IF code_writing_process = NULL
       THEN /\ code_writing_process' = c_p
            /\ st' = [st EXCEPT ![c_p] = "holding"]
            /\ grants' = grants + 1
            /\ UNCHANGED code_write_queue
            /\ last_op' = "try_seize_true"
       ELSE /\ code_write_queue' = code_write_queue \cup {c_p}
            /\ st' = [st EXCEPT ![c_p] = "suspended"]
            /\ UNCHANGED <<code_writing_process, grants>>
            /\ last_op' = "try_seize_false"
    /\ UNCHANGED <<aux_work, aux_runs, lifecycle, rd>>
    /\ UNCHANGED ix_vars
    /\ UNCHANGED table_vars
    /\ UNCHANGED call_vars

erts_try_seize_code_write_permission(c_p) ==
    /\ fault = "none"
    /\ st[c_p] \in {"running", "resumed"}
    /\ IF code_writing_process = NULL
       THEN /\ code_writing_process' = c_p
            /\ st' = [st EXCEPT ![c_p] = "holding"]
            /\ grants' = grants + 1
            /\ UNCHANGED code_write_queue
            /\ last_op' = "try_seize_true"
       ELSE /\ code_write_queue' = code_write_queue \cup {c_p}
            /\ st' = [st EXCEPT ![c_p] = "suspended"]
            /\ UNCHANGED <<code_writing_process, grants>>
            /\ last_op' = "try_seize_false"
    /\ UNCHANGED <<aux_work, aux_runs, lifecycle, rd>>
    /\ UNCHANGED ix_vars
    /\ UNCHANGED table_vars
    /\ UNCHANGED call_vars

erts_try_seize_code_write_permission_aux(func) ==
    /\ fault = "none"
    /\ st[func] = "running"
    /\ aux_runs' = [aux_runs EXCEPT ![func] = 0]
    /\ IF code_writing_process = NULL
       THEN /\ code_writing_process' = func
            /\ st' = [st EXCEPT ![func] = "holding"]
            /\ grants' = grants + 1
            /\ UNCHANGED code_write_queue
            /\ last_op' = "try_seize_aux_true"
       ELSE /\ code_write_queue' = code_write_queue \cup {func}
            /\ st' = [st EXCEPT ![func] = "registered"]
            /\ UNCHANGED <<code_writing_process, grants>>
            /\ last_op' = "try_seize_aux_false"
    /\ UNCHANGED <<aux_work, lifecycle, rd>>
    /\ UNCHANGED ix_vars
    /\ UNCHANGED table_vars
    /\ UNCHANGED call_vars

\* (mutant) the release resumes one suspended process and leaves the others queued.
ReleaseWakesOne ==
    /\ fault = "none"
    /\ code_writing_process # NULL
    /\ lifecycle = "Idle"
    /\ \E woken \in SUBSET (code_write_queue \cap Procs) :
         /\ Cardinality(woken) = (IF code_write_queue \cap Procs = {} THEN 0 ELSE 1)
         /\ st' = [c \in Contexts |->
                     IF c = code_writing_process THEN "running"
                     ELSE IF c \in woken THEN "resumed"
                     ELSE st[c]]
         /\ code_write_queue' = (code_write_queue \cap Procs) \ woken
    /\ aux_work' = aux_work \cup (code_write_queue \cap AuxWorks)
    /\ code_writing_process' = NULL
    /\ grants' = 0
    /\ last_op' = "release"
    /\ UNCHANGED <<aux_runs, lifecycle, rd>>
    /\ UNCHANGED ix_vars
    /\ UNCHANGED table_vars
    /\ UNCHANGED call_vars

\* (mutant) the release drops the registered aux work instead of scheduling it.
ReleaseDropsAuxWork ==
    /\ fault = "none"
    /\ code_writing_process # NULL
    /\ lifecycle = "Idle"
    /\ st' = [c \in Contexts |->
                IF c = code_writing_process THEN "running"
                ELSE IF c \in code_write_queue /\ c \in Procs THEN "resumed"
                ELSE st[c]]
    /\ code_write_queue' = {}
    /\ code_writing_process' = NULL
    /\ grants' = 0
    /\ last_op' = "release"
    /\ UNCHANGED <<aux_work, aux_runs, lifecycle, rd>>
    /\ UNCHANGED ix_vars
    /\ UNCHANGED table_vars
    /\ UNCHANGED call_vars

\* (mutant) the release does not wait for the staging to be committed or aborted.
ReleaseWhileStaging ==
    /\ fault = "none"
    /\ code_writing_process # NULL
    /\ st' = [c \in Contexts |->
                IF c = code_writing_process THEN "running"
                ELSE IF c \in code_write_queue /\ c \in Procs THEN "resumed"
                ELSE st[c]]
    /\ aux_work' = aux_work \cup (code_write_queue \cap AuxWorks)
    /\ code_write_queue' = {}
    /\ code_writing_process' = NULL
    /\ grants' = 0
    /\ last_op' = "release"
    /\ UNCHANGED <<aux_runs, lifecycle, rd>>
    /\ UNCHANGED ix_vars
    /\ UNCHANGED table_vars
    /\ UNCHANGED call_vars

erts_release_code_write_permission ==
    /\ fault = "none"
    /\ code_writing_process # NULL
    /\ lifecycle = "Idle"
    /\ st' = [c \in Contexts |->
                IF c = code_writing_process THEN "running"
                ELSE IF c \in code_write_queue /\ c \in Procs THEN "resumed"
                ELSE st[c]]
    /\ aux_work' = aux_work \cup (code_write_queue \cap AuxWorks)
    /\ code_write_queue' = {}
    /\ code_writing_process' = NULL
    /\ grants' = 0
    /\ last_op' = "release"
    /\ UNCHANGED <<aux_runs, lifecycle, rd>>
    /\ UNCHANGED ix_vars
    /\ UNCHANGED table_vars
    /\ UNCHANGED call_vars

\* The scheduler runs aux work func(arg) that a release scheduled.
RunAuxWork(func) ==
    /\ fault = "none"
    /\ func \in aux_work
    /\ aux_work' = aux_work \ {func}
    /\ aux_runs' = [aux_runs EXCEPT ![func] = IF @ < 2 THEN @ + 1 ELSE @]
    /\ st' = [st EXCEPT ![func] = IF @ = "registered" THEN "running" ELSE @]
    /\ last_op' = "aux_work"
    /\ UNCHANGED <<code_writing_process, code_write_queue, grants, lifecycle, rd>>
    /\ UNCHANGED ix_vars
    /\ UNCHANGED table_vars
    /\ UNCHANGED call_vars

(* ----------------------------------------------------- staging life cycle *)
\* (mutant) the staging area is left as the last staging under that index left it.
StagingAreaNotCopied(ix) == addresses

\* The staging area under index ix, prepared as a complete copy of the active code.
PrepareStagingArea(ix) ==
    [x \in Callables |-> [addresses[x] EXCEPT ![ix] = addresses[x][erts_active_code_ix]]]

erts_start_staging_code_ix ==
    /\ fault = "none"
    /\ code_writing_process # NULL
    /\ lifecycle = "Idle"
    /\ Quiescent(RetiringIx)
    /\ the_staging_code_index' = RetiringIx
    /\ addresses' = PrepareStagingArea(RetiringIx)
    /\ lifecycle' = "Staged"
    /\ staged' = {}
    /\ last_stored' = <<>>
    /\ last_op' = "start"
    /\ UNCHANGED <<the_active_code_index, before_commit, next_entry, expect, discarded, rd>>
    /\ UNCHANGED gate_vars
    /\ UNCHANGED call_vars

\* (mutant) the end of the staging already makes the staging index the active one.
EndPublishes ==
    /\ fault = "none"
    /\ code_writing_process # NULL
    /\ lifecycle = "Staged"
    /\ lifecycle' = "Ended"
    /\ the_active_code_index' = erts_staging_code_ix
    /\ last_op' = "end"
    /\ UNCHANGED <<the_staging_code_index, before_commit, rd>>
    /\ UNCHANGED table_vars
    /\ UNCHANGED gate_vars
    /\ UNCHANGED call_vars

\* (mutant) the end is accepted in every stage of the life cycle.
EndAnywhere ==
    /\ fault = "none"
    /\ code_writing_process # NULL
    /\ lifecycle' = "Ended"
    /\ last_op' = "end"
    /\ UNCHANGED <<rd>>
    /\ UNCHANGED ix_vars
    /\ UNCHANGED table_vars
    /\ UNCHANGED gate_vars
    /\ UNCHANGED call_vars

erts_end_staging_code_ix ==
    /\ fault = "none"
    /\ code_writing_process # NULL
    /\ lifecycle = "Staged"
    /\ lifecycle' = "Ended"
    /\ last_op' = "end"
    /\ UNCHANGED <<rd>>
    /\ UNCHANGED ix_vars
    /\ UNCHANGED table_vars
    /\ UNCHANGED gate_vars
    /\ UNCHANGED call_vars

\* (mutant) the commit swaps the active and the staging index.
CommitSwaps ==
    /\ fault = "none"
    /\ code_writing_process # NULL
    /\ lifecycle = "Ended"
    /\ the_active_code_index' = erts_staging_code_ix
    /\ the_staging_code_index' = erts_active_code_ix
    /\ before_commit' = <<erts_active_code_ix, erts_staging_code_ix>>
    /\ expect' = [x \in Callables |->
                    IF x \in DOMAIN last_stored THEN last_stored[x] ELSE expect[x]]
    /\ staged' = {}
    /\ last_stored' = <<>>
    /\ lifecycle' = "Idle"
    /\ last_op' = "commit"
    /\ UNCHANGED <<addresses, next_entry, discarded, rd>>
    /\ UNCHANGED gate_vars
    /\ UNCHANGED call_vars

\* (mutant) the commit takes the next staging index by counting up, without
\* wrapping at the number of code indices.
CommitCountsUp ==
    /\ fault = "none"
    /\ code_writing_process # NULL
    /\ lifecycle = "Ended"
    /\ the_active_code_index' = erts_staging_code_ix
    /\ the_staging_code_index' = erts_staging_code_ix + 1
    /\ before_commit' = <<erts_active_code_ix, erts_staging_code_ix>>
    /\ expect' = [x \in Callables |->
                    IF x \in DOMAIN last_stored THEN last_stored[x] ELSE expect[x]]
    /\ staged' = {}
    /\ last_stored' = <<>>
    /\ lifecycle' = "Idle"
    /\ last_op' = "commit"
    /\ UNCHANGED <<addresses, next_entry, discarded, rd>>
    /\ UNCHANGED gate_vars
    /\ UNCHANGED call_vars

erts_commit_staging_code_ix ==
    /\ fault = "none"
    /\ code_writing_process # NULL
    /\ lifecycle = "Ended"
    /\ the_active_code_index' = erts_staging_code_ix
    /\ the_staging_code_index' = RetiringIx
    /\ before_commit' = <<erts_active_code_ix, erts_staging_code_ix>>
    /\ expect' = [x \in Callables |->
                    IF x \in DOMAIN last_stored THEN last_stored[x] ELSE expect[x]]
    /\ staged' = {}
    /\ last_stored' = <<>>
    /\ lifecycle' = "Idle"
    /\ last_op' = "commit"
    /\ UNCHANGED <<addresses, next_entry, discarded, rd>>
    /\ UNCHANGED gate_vars
    /\ UNCHANGED call_vars

\* (mutant) the abort is accepted after the end as well as after the start.
AbortAnyStage ==
    /\ fault = "none"
    /\ code_writing_process # NULL
    /\ lifecycle \in {"Staged", "Ended"}
    /\ discarded' = discarded \cup staged
    /\ staged' = {}
    /\ last_stored' = <<>>
    /\ lifecycle' = "Idle"
    /\ last_op' = "abort"
    /\ UNCHANGED <<addresses, next_entry, expect, rd>>
    /\ UNCHANGED ix_vars
    /\ UNCHANGED gate_vars
    /\ UNCHANGED call_vars

erts_abort_staging_code_ix ==
    /\ fault = "none"
    /\ code_writing_process # NULL
    /\ lifecycle = "Staged"
    /\ discarded' = discarded \cup staged
    /\ staged' = {}
    /\ last_stored' = <<>>
    /\ lifecycle' = "Idle"
    /\ last_op' = "abort"
    /\ UNCHANGED <<addresses, next_entry, expect, rd>>
    /\ UNCHANGED ix_vars
    /\ UNCHANGED gate_vars
    /\ UNCHANGED call_vars

(* -------------------------------------------------------- dispatch table *)
\* The loader stores a fresh entry point for callable x in the staging slot.
set_address(x) ==
    /\ fault = "none"
    /\ code_writing_process # NULL
    /\ lifecycle = "Staged"
    /\ next_entry <= MaxEntry
    /\ addresses' = [addresses EXCEPT ![x][erts_staging_code_ix] = next_entry]
    /\ next_entry' = next_entry + 1
    /\ staged' = staged \cup {next_entry}
    /\ last_stored' = [y \in (DOMAIN last_stored) \cup {x} |->
                         IF y = x THEN next_entry ELSE last_stored[y]]
    /\ last_op' = "set_address"
    /\ UNCHANGED <<expect, discarded, lifecycle, rd>>
    /\ UNCHANGED ix_vars
    /\ UNCHANGED gate_vars
    /\ UNCHANGED call_vars

(* --------------------------------------------------------------- readers *)
\* A BIF begins: it reads the active code index once and keeps it.
ReaderBegin(r) ==
    /\ fault = "none"
    /\ ~InFlight(r)
    /\ rd' = [rd EXCEPT ![r] = <<erts_active_code_ix,
                                 [x \in Callables |-> addresses[x][erts_active_code_ix]],
                                 <<>>>>]
    /\ last_op' = "reader_begin"
    /\ UNCHANGED lifecycle
    /\ UNCHANGED ix_vars
    /\ UNCHANGED table_vars
    /\ UNCHANGED gate_vars
    /\ UNCHANGED call_vars

\* The BIF reads callable x's entry point under the index it cached.
address_for(r, x) ==
    /\ fault = "none"
    /\ InFlight(r)
    /\ rd' = [rd EXCEPT ![r][3] = <<x, addresses[x][CachedIx(r)]>>]
    /\ last_op' = "address_for"
    /\ UNCHANGED lifecycle
    /\ UNCHANGED ix_vars
    /\ UNCHANGED table_vars
    /\ UNCHANGED gate_vars
    /\ UNCHANGED call_vars

\* The BIF returns.
ReaderEnd(r) ==
    /\ fault = "none"
    /\ InFlight(r)
    /\ rd' = [rd EXCEPT ![r] = <<>>]
    /\ last_op' = "reader_end"
    /\ UNCHANGED lifecycle
    /\ UNCHANGED ix_vars
    /\ UNCHANGED table_vars
    /\ UNCHANGED gate_vars
    /\ UNCHANGED call_vars

(* ------------------------------------------------------ function headers *)
emu_vars == <<lifecycle, rd, last_op, ix_vars, table_vars, gate_vars>>

\* Eterm values by their tag; NIL is the empty list.
NIL == <<"nil", 0>>
Eterms == {<<"atom", 1>>, <<"atom", 2>>, NIL, <<"small", 0>>}
is_atom(t) == t[1] = "atom"
is_nil(t) == t = NIL

\* Uint: an unsigned machine word; a signed value converts to it modulo 2^WordBits.
UintMax == 2^WordBits - 1
Uint == 0 .. UintMax
ToUint(n) == n % (2^WordBits)

\* ErtsCodeMFA in words: module, function, arity.
SizeofCodeMFA == 3
\* ErtsCodeInfo in words: op, u and the mfa.
SizeofCodeInfo == 2 + SizeofCodeMFA

\* (mutant) the arity ceiling is accepted too.
AssertMfaCeilingIncluded(mfa) ==
    /\ is_atom(mfa[1]) \/ is_nil(mfa[1])
    /\ is_atom(mfa[2]) \/ is_nil(mfa[2])
    /\ (mfa[3] >= 0 /\ mfa[3] <= 1024) \/ mfa[3] = ToUint(-1)

\* mfa = <<module, function, arity>>, the arity a Uint.
ASSERT_MFA(mfa) ==
    /\ is_atom(mfa[1]) \/ is_nil(mfa[1])
    /\ is_atom(mfa[2]) \/ is_nil(mfa[2])
    /\ (mfa[3] >= 0 /\ mfa[3] < 1024) \/ mfa[3] = ToUint(-1)

\* Pointers are word addresses in the code area.
erts_codeinfo_to_code(ci) == ci + SizeofCodeInfo

\* (mutant) the function header is taken to be as long as its mfa.
CodeToCodeinfoByMfaSize(I) == I - SizeofCodeMFA

erts_code_to_codeinfo(I) == I - SizeofCodeInfo

erts_codemfa_to_code(mfa) == mfa + SizeofCodeMFA

erts_code_to_codemfa(I) == I - SizeofCodeMFA

\* A call on a function header: arg = <<beamasm, kind, pointer, op, mfa>>, where
\* the header the pointer belongs to holds op and mfa, and res collects the
\* pointers returned so far.
Beamasm == arg[1]
Kind == arg[2]
Ptr == arg[3]
HeaderOp == arg[4]
HeaderMfa == arg[5]

Ops == {"op_i_func_info_IaaI", "0", "op_other"}
HeaderMFAs == {<<<<"atom", 1>>, <<"atom", 2>>, 2>>, <<NIL, NIL, ToUint(-1)>>,
               <<<<"atom", 1>>, <<"small", 0>>, 1024>>}
HeaderPtrs == 0 .. (MaxPtr - SizeofCodeInfo)
PtrOf(kind, h) ==
    CASE kind = "codeinfo" -> h
      [] kind = "codemfa" -> h + (SizeofCodeInfo - SizeofCodeMFA)
      [] OTHER -> h + SizeofCodeInfo
PtrCalls ==
    {<<b, k, PtrOf(k, h), op, mfa>> :
        b \in BOOLEAN, k \in {"codeinfo", "code_of_codeinfo", "codemfa", "code_of_codemfa"},
        h \in HeaderPtrs, op \in Ops, mfa \in HeaderMFAs}

OpAsserted == Beamasm \/ HeaderOp \in {"op_i_func_info_IaaI", "0"}

\* The pointer the next call of a round trip is made on.
Operand == IF Len(res) = 0 THEN Ptr ELSE res[Len(res)]

\* A call returns its pointer; where an ASSERT fails a debug build stops instead.
Returns(ok, ptr) ==
    /\ fault = "none"
    /\ \/ /\ res' = Append(res, ptr)
          /\ fault' = fault
       \/ /\ ~ok
          /\ fault' = "assert"
          /\ res' = res
    /\ UNCHANGED arg
    /\ UNCHANGED emu_vars

CodeinfoToCode ==
    /\ (Len(res) = 0 /\ Kind = "codeinfo") \/ (Len(res) = 1 /\ Kind = "code_of_codeinfo")
    /\ Returns(OpAsserted /\ ASSERT_MFA(HeaderMfa), erts_codeinfo_to_code(Operand))

CodeToCodeinfo ==
    /\ (Len(res) = 0 /\ Kind = "code_of_codeinfo") \/ (Len(res) = 1 /\ Kind = "codeinfo")
    /\ Returns(OpAsserted /\ ASSERT_MFA(HeaderMfa), erts_code_to_codeinfo(Operand))

CodemfaToCode ==
    /\ (Len(res) = 0 /\ Kind = "codemfa") \/ (Len(res) = 1 /\ Kind = "code_of_codemfa")
    /\ Returns(ASSERT_MFA(HeaderMfa), erts_codemfa_to_code(Operand))

CodeToCodemfa ==
    /\ (Len(res) = 0 /\ Kind = "code_of_codemfa") \/ (Len(res) = 1 /\ Kind = "codemfa")
    /\ Returns(ASSERT_MFA(HeaderMfa), erts_code_to_codemfa(Operand))

\* The identity check alone: arg = <<module, function, arity>>, res the outcome.
CheckMfa ==
    /\ fault = "none"
    /\ res = <<>>
    /\ res' = <<ASSERT_MFA(arg)>>
    /\ fault' = IF ASSERT_MFA(arg) THEN "none" ELSE "assert"
    /\ UNCHANGED arg
    /\ UNCHANGED emu_vars

(* ------------------------------------------------- calls out of contract *)
\* A call that breaks its precondition is a programming error: the emulator
\* stops on it. The call is recorded in fault and changes nothing else, and no
\* operation is taken after it.
Fault(op) ==
    /\ fault = "none"
    /\ fault' = op
    /\ UNCHANGED <<arg, res, lifecycle, rd, last_op>>
    /\ UNCHANGED ix_vars
    /\ UNCHANGED table_vars
    /\ UNCHANGED gate_vars

\* try_seize by the process that holds the permission.
SeizeByHolder(c_p) ==
    /\ code_writing_process = c_p
    /\ Fault("try_seize")

\* try_seize_aux by the context that holds the permission.
SeizeAuxByHolder(func) ==
    /\ code_writing_process = func
    /\ Fault("try_seize_aux")

\* start without the permission, or while a staging is in progress.
StartOutOfSequence ==
    /\ code_writing_process = NULL \/ lifecycle # "Idle"
    /\ Fault("start")

\* end that is not preceded by start.
EndOutOfSequence ==
    /\ lifecycle # "Staged"
    /\ Fault("end")

\* commit that is not preceded by end.
CommitOutOfSequence ==
    /\ lifecycle # "Ended"
    /\ Fault("commit")

\* abort that is not preceded by start.
AbortOutOfSequence ==
    /\ lifecycle # "Staged"
    /\ Fault("abort")

(* ------------------------------------------------------- specifications *)
TrySeize == \E c_p \in Procs : erts_try_seize_code_write_permission(c_p)
TrySeizeAux == \E func \in AuxWorks : erts_try_seize_code_write_permission_aux(func)
Release == erts_release_code_write_permission
AuxWork == \E func \in AuxWorks : RunAuxWork(func)
Start == erts_start_staging_code_ix
End == erts_end_staging_code_ix
Commit == erts_commit_staging_code_ix
Abort == erts_abort_staging_code_ix
Load == \E x \in Callables : set_address(x)
Begin == \E r \in Readers : ReaderBegin(r)
Read == \E r \in Readers, x \in Callables : address_for(r, x)
Return == \E r \in Readers : ReaderEnd(r)

Next ==
    \/ TrySeize
    \/ TrySeizeAux
    \/ Release
    \/ AuxWork
    \/ Start
    \/ End
    \/ Commit
    \/ Abort
    \/ Load
    \/ Begin
    \/ Read
    \/ Return

Spec == Init /\ [][Next]_vars

\* The writers alone: the code write permission and the staging life cycle, with
\* no loader and no reader taking a step.
LifecycleNext ==
    \/ TrySeize
    \/ TrySeizeAux
    \/ Release
    \/ AuxWork
    \/ Start
    \/ End
    \/ Commit
    \/ Abort

LifecycleSpec == Init /\ [][LifecycleNext]_vars

\* The code write permission alone, with the scheduling the emulator gives: a
\* holder releases the permission, and scheduled aux work is run.
GateNext ==
    \/ TrySeize
    \/ TrySeizeAux
    \/ Release
    \/ AuxWork

LiveSpec ==
    /\ Init
    /\ [][GateNext]_vars
    /\ WF_vars(Release)
    /\ \A func \in AuxWorks : WF_vars(RunAuxWork(func))

ReSeize == \E c_p \in Procs : SeizeByHolder(c_p)
ReSeizeAux == \E func \in AuxWorks : SeizeAuxByHolder(func)

\* The writers, with the calls out of contract they can make.
MisuseNext ==
    \/ TrySeize
    \/ TrySeizeAux
    \/ Release
    \/ AuxWork
    \/ Start
    \/ End
    \/ Commit
    \/ Abort
    \/ ReSeize
    \/ ReSeizeAux
    \/ StartOutOfSequence
    \/ EndOutOfSequence
    \/ CommitOutOfSequence
    \/ AbortOutOfSequence

MisuseSpec == Init /\ [][MisuseNext]_vars

\* The function header translations, on every header of the code area.
PtrInit ==
    /\ erts_code_ix_init
    /\ fault = "none"
    /\ arg \in PtrCalls
    /\ res = <<>>

PtrNext ==
    \/ CodeinfoToCode
    \/ CodeToCodeinfo
    \/ CodemfaToCode
    \/ CodeToCodemfa

PtrSpec == PtrInit /\ [][PtrNext]_vars

\* The identity check, on every triple of an Eterm, an Eterm and a Uint.
MfaInit ==
    /\ erts_code_ix_init
    /\ fault = "none"
    /\ arg \in Eterms \X Eterms \X Uint
    /\ res = <<>>

MfaNext == CheckMfa

MfaSpec == MfaInit /\ [][MfaNext]_vars

(* ---------------------------------------------------------------- claims *)
Holders == {c \in Contexts : st[c] = "holding"}
Suspended == {p \in Procs : st[p] = "suspended"}
Resumed == {p \in Procs : st[p] = "resumed"}

\* C1: mutual exclusion of the code write permission. At most one context holds
\* the permission, the holder is the context that code_writing_process names, and
\* at most one seize has returned true since the last release.
C1_MutualExclusion ==
    /\ Cardinality(Holders) <= 1
    /\ Holders = (IF code_writing_process = NULL THEN {} ELSE {code_writing_process})
    /\ grants <= 1
    /\ grants = Cardinality(Holders)

\* One context holds the permission while two others were refused it.
C1_Witness ==
    /\ Cardinality(Holders) = 1
    /\ Cardinality(code_write_queue) >= 2

\* C2: the active index differs from the staging index in every reachable state,
\* so that active, staging and retiring are three pairwise distinct indices.
C2_ActiveNotStaging ==
    /\ erts_active_code_ix # erts_staging_code_ix
    /\ Cardinality({erts_active_code_ix, erts_staging_code_ix, RetiringIx}) = ERTS_NUM_CODE_IX

\* The state right after a commit, before the next start.
C2_Witness ==
    /\ last_op = "commit"
    /\ lifecycle = "Idle"
    /\ erts_active_code_ix # 0

\* C3: right after a commit the active index is the staging index of before the
\* commit, and the retiring index is the active index of before the commit.
C3_CommitRotates ==
    last_op = "commit" =>
        /\ erts_active_code_ix = before_commit[2]
        /\ RetiringIx = before_commit[1]

\* The second commit of a run: the index that the first commit made active retires.
C3_Witness ==
    /\ last_op = "commit"
    /\ before_commit = <<2, 0>>

\* C4: the index that a start makes the staging target is neither the active
\* index nor the index that was active right before the most recent commit.
C4_StagingTargetNotRecentlyActive ==
    last_op = "start" =>
        /\ erts_staging_code_ix # erts_active_code_ix
        /\ before_commit # <<>> => erts_staging_code_ix # before_commit[1]

\* C5: a reader that read the active index once sees one generation: under the
\* index it cached every callable still has the entry point it had when the index
\* was cached, whatever was staged and committed since, what it reads is that
\* entry point, and the active slot holds for every callable the entry point that
\* the writer last stored for it before the end of a committed staging.
C5_ReaderSeesOneGeneration ==
    /\ \A r \in Readers : InFlight(r) =>
          /\ \A x \in Callables : addresses[x][CachedIx(r)] = Snapshot(r)[x]
          /\ LastRead(r) # <<>> => LastRead(r)[2] = Snapshot(r)[LastRead(r)[1]]
          /\ CachedIx(r) = the_active_code_index => Snapshot(r) = expect
    /\ \A x \in Callables : addresses[x][the_active_code_index] = expect[x]

\* A reader cached the index before a commit that published a new entry point, and
\* has read the old entry point after that commit.
C5_Witness ==
    \E r \in Readers, x \in Callables :
        /\ InFlight(r)
        /\ before_commit # <<>>
        /\ CachedIx(r) = before_commit[1]
        /\ LastRead(r) = <<x, Snapshot(r)[x]>>
        /\ last_op = "address_for"
        /\ addresses[x][the_active_code_index] # Snapshot(r)[x]

\* C6: the commit is the only operation that changes the active index.
C6_OnlyCommitChangesActive ==
    [][the_active_code_index' # the_active_code_index => last_op' = "commit"]_vars

\* A whole seize, start, end, commit, release cycle is over, and the active index
\* is the one that the commit set.
C6_Witness ==
    /\ last_op = "release"
    /\ before_commit # <<>>
    /\ the_active_code_index = before_commit[2]
    /\ the_active_code_index # 0

NeverObserved(entries) ==
    /\ \A x \in Callables : addresses[x][the_active_code_index] \notin entries
    /\ \A r \in Readers : InFlight(r) =>
          /\ \A x \in Callables : addresses[x][CachedIx(r)] \notin entries
          /\ LastRead(r) # <<>> => LastRead(r)[2] \notin entries

\* C7 (as amended): an abort is taken in the Staged state only, returns the life
\* cycle to Idle with the active index unchanged, and the entry points stored in a
\* staging that was aborted are never returned to a reader, then or later.
C7_AbortDiscards ==
    /\ [](NeverObserved(discarded))
    /\ [][last_op' = "abort" =>
            /\ lifecycle = "Staged"
            /\ lifecycle' = "Idle"
            /\ the_active_code_index' = the_active_code_index
            /\ staged \subseteq discarded']_vars
    /\ [](lifecycle = "Ended" => ~ENABLED erts_abort_staging_code_ix)

\* An aborted staging left entry points in a slot that a later start took as its
\* staging target again, and that staging was committed.
C7_Witness ==
    /\ discarded # {}
    /\ last_op = "commit"
    /\ \E x \in Callables, i \in CodeIx :
          /\ i # the_active_code_index
          /\ addresses[x][i] \in discarded

\* C7 as stated: the abort is enabled in the Staged and in the Ended state, and
\* what an aborted staging stored is never returned to a reader.
C7_AbortEnabledWhenEnded ==
    /\ (code_writing_process # NULL /\ lifecycle \in {"Staged", "Ended"})
           => ENABLED erts_abort_staging_code_ix
    /\ NeverObserved(discarded)

\* C8 (as amended): a release frees the permission and resumes every process
\* that is suspended in the queue; no process stays suspended past a release.
C8_ReleaseResumesAll ==
    /\ [][last_op' = "release" =>
            /\ code_writing_process # NULL
            /\ code_writing_process' = NULL
            /\ \A p \in Procs : st[p] = "suspended" => st'[p] = "resumed"
            /\ code_write_queue' = {}]_vars
    /\ [](code_writing_process = NULL => Suspended = {})

\* A release has just resumed two suspended processes.
C8_Witness ==
    /\ last_op = "release"
    /\ Cardinality(Resumed) >= 2

\* C8 as stated: a release with suspended processes resumes exactly one of them.
C8_ReleaseResumesExactlyOne ==
    [][(last_op' = "release" /\ Suspended # {}) =>
          Cardinality({p \in Procs : st[p] = "suspended" /\ st'[p] = "resumed"}) = 1]_vars

\* C9: no suspended process starves. When every holder releases the permission,
\* each suspended process is eventually resumed, also while aux work registers.
C9_NoStarvation ==
    \A p \in Procs : (st[p] = "suspended") ~> (st[p] = "resumed")

\* Two processes are suspended while aux work is registered behind the holder.
C9_Witness ==
    /\ Cardinality(Suspended) >= 2
    /\ code_write_queue \cap AuxWorks # {}

AuxWorkAccounted ==
    \A func \in AuxWorks :
        /\ aux_runs[func] <= 1
        /\ st[func] = "registered" =>
              /\ aux_runs[func] = 0
              /\ (func \in code_write_queue) # (func \in aux_work)
        /\ func \in code_write_queue => code_writing_process \notin {NULL, func}
        /\ st[func] # "registered" => (func \notin code_write_queue /\ func \notin aux_work)
        /\ st[func] = "holding" => aux_runs[func] = 0

\* C10 (as amended): a failing seize for aux work registers func; the next
\* release schedules it, and it is then run exactly once, after that release, not
\* holding the permission, in no fixed order relative to the resumed processes.
\* A seize for aux work that succeeds registers nothing and its func is never run.
C10_AuxWorkRunsOnce ==
    /\ [](AuxWorkAccounted)
    /\ [][last_op' = "try_seize_aux_false" =>
            \E func \in AuxWorks :
                /\ func \notin code_write_queue
                /\ func \in code_write_queue'
                /\ code_writing_process' = code_writing_process]_vars
    /\ [][last_op' = "aux_work" =>
            \E func \in AuxWorks :
                /\ func \in aux_work
                /\ func \notin aux_work'
                /\ aux_runs'[func] = 1
                /\ code_writing_process' # func]_vars
    /\ \A func \in AuxWorks :
          (st[func] = "registered") ~> (st[func] = "running" /\ aux_runs[func] = 1)

\* Aux work that a release scheduled is still to run when a process has already
\* seized the permission again.
C10_Witness ==
    /\ aux_work # {}
    /\ \E p \in Procs : code_writing_process = p
    /\ last_op = "try_seize_true"

\* C10 as stated: the func is run before any resumed process runs.
C10_AuxWorkBeforeResumed ==
    [][\A p \in Procs : (st[p] = "resumed" /\ st'[p] # "resumed") => aux_work = {}]_vars

\* C11: a try_seize returns true exactly when no context holds the permission at
\* the call, and the caller is then the holder; otherwise it returns false, leaves
\* the holder as it is and puts the caller, suspended, in the queue. Of two calls
\* on a free permission one returns true and the other false.
C11_TrySeizeOutcome ==
    /\ [][last_op' \in {"try_seize_true", "try_seize_false"} =>
            \E c_p \in Procs :
                /\ st[c_p] \in {"running", "resumed"}
                /\ \A c \in Contexts \ {c_p} : st'[c] = st[c]
                /\ IF code_writing_process = NULL
                   THEN /\ last_op' = "try_seize_true"
                        /\ code_writing_process' = c_p
                        /\ st'[c_p] = "holding"
                        /\ code_write_queue' = code_write_queue
                   ELSE /\ last_op' = "try_seize_false"
                        /\ code_writing_process' = code_writing_process
                        /\ st'[c_p] = "suspended"
                        /\ code_write_queue' = code_write_queue \cup {c_p}]_vars
    /\ [](last_op = "try_seize_false" => code_writing_process # NULL)
    /\ [](Suspended = code_write_queue \cap Procs)

\* Two processes called try_seize on a free permission: one holds it, the other
\* was refused and is the only one in the queue.
C11_Witness ==
    /\ last_op = "try_seize_false"
    /\ grants = 1
    /\ \E p, q \in Procs :
          /\ p # q
          /\ code_writing_process = p
          /\ code_write_queue = {q}
          /\ st[q] = "suspended"

\* C12: the staging life cycle is nested in a hold of the permission. A start,
\* end, commit or abort step is taken while a context holds the permission and
\* leaves the holder as it is, and the life cycle is Idle whenever no context
\* holds the permission.
C12_LifecycleInsideHold ==
    /\ [](code_writing_process = NULL => lifecycle = "Idle")
    /\ [][last_op' \in {"start", "end", "commit", "abort"} =>
            /\ code_writing_process # NULL
            /\ code_writing_process' = code_writing_process
            /\ st[code_writing_process] = "holding"]_vars
    /\ [][lifecycle' # lifecycle => last_op' \in {"start", "end", "commit", "abort"}]_vars

\* A staging was committed under a hold of the permission that was then released,
\* and the next holder has started a staging.
C12_Witness ==
    /\ last_op = "start"
    /\ before_commit # <<>>
    /\ code_write_queue # {}
    /\ lifecycle = "Staged"

AcceptedSteps ==
    {<<"Idle", "start", "Staged">>, <<"Staged", "end", "Ended">>,
     <<"Ended", "commit", "Idle">>, <<"Staged", "abort", "Idle">>}

\* C13: a life cycle operation called in the wrong stage is a fault and changes
\* nothing: start outside Idle, end outside Staged, commit outside Ended and
\* abort outside Staged (in Idle or after end) are not taken and lead to the
\* fault, so the only accepted orders are start-end-commit and start-abort.
C13_OutOfSequenceIsFault ==
    /\ [][fault' # fault =>
            /\ fault = "none"
            /\ UNCHANGED <<lifecycle, rd, last_op, arg, res>>
            /\ UNCHANGED ix_vars
            /\ UNCHANGED table_vars
            /\ UNCHANGED gate_vars]_vars
    /\ [](lifecycle # "Idle" =>
            ~ENABLED erts_start_staging_code_ix /\ (fault = "none" => ENABLED StartOutOfSequence))
    /\ [](lifecycle # "Staged" =>
            ~ENABLED erts_end_staging_code_ix /\ (fault = "none" => ENABLED EndOutOfSequence))
    /\ [](lifecycle # "Ended" =>
            ~ENABLED erts_commit_staging_code_ix /\ (fault = "none" => ENABLED CommitOutOfSequence))
    /\ [](lifecycle # "Staged" =>
            ~ENABLED erts_abort_staging_code_ix /\ (fault = "none" => ENABLED AbortOutOfSequence))
    /\ [](fault = "end" => lifecycle # "Staged")
    /\ [](fault = "commit" => lifecycle # "Ended")
    /\ [](fault = "abort" => lifecycle # "Staged")
    /\ [](fault = "start" => lifecycle # "Idle" \/ code_writing_process = NULL)
    /\ [][lifecycle' # lifecycle => <<lifecycle, last_op', lifecycle'>> \in AcceptedSteps]_vars

\* After a committed staging, a second one was started and ended, and abort was
\* then called: the call is the fault and the staging is still Ended.
C13_Witness ==
    /\ fault = "abort"
    /\ lifecycle = "Ended"
    /\ before_commit # <<>>
    /\ last_op = "end"

\* C13 as stated: start-end-abort is an accepted order, so abort is a fault in
\* Idle only.
C13_AbortFaultOnlyInIdle == fault = "abort" => lifecycle = "Idle"

\* C14: try_seize or try_seize_aux by the context that holds the permission is a
\* fault: it does not return true again, the permission stays granted once, and
\* the holder is never put in the queue of the permission it holds.
C14_ReSeizeIsFault ==
    /\ [][fault' \in {"try_seize", "try_seize_aux"} /\ fault = "none" =>
            /\ code_writing_process # NULL
            /\ (fault' = "try_seize") = (code_writing_process \in Procs)
            /\ last_op' = last_op
            /\ UNCHANGED gate_vars]_vars
    /\ [][grants' > grants => code_writing_process = NULL /\ grants' = 1]_vars
    /\ [](code_writing_process \notin code_write_queue)
    /\ [](grants <= 1)
    /\ [](\A c \in Contexts : c = code_writing_process =>
            /\ ~ENABLED erts_try_seize_code_write_permission(c)
            /\ ~ENABLED erts_try_seize_code_write_permission_aux(c))

\* The process that holds the permission called try_seize while another process
\* is suspended in the queue: the call is the fault, and the holder still holds.
C14_Witness ==
    /\ fault = "try_seize"
    /\ code_writing_process \in Procs
    /\ st[code_writing_process] = "holding"
    /\ code_write_queue \cap Procs # {}
    /\ grants = 1

\* C15: the header and code translations are exact inverses. From a function
\* header, codeinfo_to_code then code_to_codeinfo gives the header back; from the
\* code that follows a header, code_to_codeinfo then codeinfo_to_code gives the
\* code back; and the same for codemfa_to_code and code_to_codemfa.
C15_TranslationsAreInverses ==
    /\ Len(res) = 2 => res[2] = Ptr
    /\ Len(res) >= 1 => res[1] # Ptr
    /\ Len(res) >= 1 /\ Kind \in {"codeinfo", "codemfa"} =>
            res[1] = PtrOf("code_of_codeinfo", Ptr - PtrOf(Kind, 0))
    /\ Len(res) >= 1 /\ Kind = "code_of_codeinfo" =>
            res[1] = PtrOf("codeinfo", Ptr - PtrOf(Kind, 0))
    /\ Len(res) >= 1 /\ Kind = "code_of_codemfa" =>
            res[1] = PtrOf("codemfa", Ptr - PtrOf(Kind, 0))
    /\ \A h \in HeaderPtrs :
            /\ erts_code_to_codeinfo(erts_codeinfo_to_code(h)) = h
            /\ erts_codeinfo_to_code(erts_code_to_codeinfo(h + SizeofCodeInfo)) = h + SizeofCodeInfo
            /\ erts_code_to_codemfa(erts_codemfa_to_code(h)) = h
            /\ erts_codemfa_to_code(erts_code_to_codemfa(h + SizeofCodeMFA)) = h + SizeofCodeMFA

\* A header that passes its assertions was translated to its code and back.
C15_Witness ==
    /\ Kind = "codeinfo"
    /\ ~Beamasm
    /\ HeaderOp = "op_i_func_info_IaaI"
    /\ ASSERT_MFA(HeaderMfa)
    /\ Ptr > 0
    /\ Len(res) = 2
    /\ res[1] = Ptr + SizeofCodeInfo
    /\ res[2] = Ptr
    /\ fault = "none"

\* C19: the identity check accepts a triple exactly when module and function are
\* each an atom or NIL and the arity, an unsigned word, is in 0..1023 or is the
\* all-ones word that -1 converts to; every other arity from 1024 up is refused.
C19_AssertMfaAccepts ==
    res # <<>> =>
        /\ res[1] = /\ arg[1][1] \in {"atom", "nil"}
                    /\ arg[2][1] \in {"atom", "nil"}
                    /\ arg[3] \in (0 .. 1023) \cup {2^WordBits - 1}
        /\ arg[3] >= 1024 /\ arg[3] # 2^WordBits - 1 => ~res[1]
        /\ res[1] = (fault = "none")
        /\ ToUint(-1) = 2^WordBits - 1

\* The triple NIL, NIL, -1 of invalid code was checked and accepted.
C19_Witness ==
    /\ res = <<TRUE>>
    /\ arg = <<NIL, NIL, UintMax>>
    /\ fault = "none"

C17_WritesGoToStaging ==
    /\ [][next_entry' # next_entry =>
            /\ code_writing_process # NULL
            /\ st[code_writing_process] = "holding"
            /\ lifecycle = "Staged" /\ lifecycle' = "Staged"
            /\ the_staging_code_index # the_active_code_index
            /\ UNCHANGED <<the_active_code_index, the_staging_code_index>>
            /\ \E x \in Callables :
                  addresses' = [addresses EXCEPT ![x][the_staging_code_index] = next_entry]]_vars
    /\ [][\A x \in Callables : \A i \in CodeIx :
            addresses'[x][i] # addresses[x][i] =>
                /\ i = the_staging_code_index'
                /\ i # the_active_code_index
                /\ i # the_active_code_index'
                /\ lifecycle' = "Staged"
                /\ code_writing_process # NULL]_vars
    /\ [](lifecycle \in {"Ended", "Idle"} => \A x \in Callables : ~ENABLED set_address(x))
    /\ [](code_writing_process = NULL => \A x \in Callables : ~ENABLED set_address(x))

\* In a second staging the loader stored an entry point: the staging slot holds
\* it and the active slot still holds the committed one.
C17_Witness ==
    /\ last_op = "set_address"
    /\ before_commit # <<>>
    /\ \E x \in Callables :
          /\ addresses[x][the_staging_code_index] \in staged
          /\ addresses[x][the_active_code_index] = expect[x]
          /\ expect[x] # Undefined

\* C18: a staging that was ended is committed. The life cycle leaves Ended by
\* commit only, the permission is not released and abort is not taken while it
\* is Ended, so commit comes between every end and the release; and abort is
\* taken from Staged only, after start and never after end.
C18_EndedMustCommit ==
    /\ [][lifecycle = "Ended" /\ lifecycle' # "Ended" =>
            /\ last_op' = "commit"
            /\ lifecycle' = "Idle"
            /\ the_active_code_index' = the_staging_code_index
            /\ code_writing_process' = code_writing_process]_vars
    /\ [](lifecycle = "Ended" =>
            /\ code_writing_process # NULL
            /\ ~ENABLED erts_release_code_write_permission
            /\ ~ENABLED erts_abort_staging_code_ix
            /\ ENABLED erts_commit_staging_code_ix)
    /\ [][code_writing_process # NULL /\ code_writing_process' = NULL =>
            lifecycle = "Idle" /\ last_op \in {"commit", "abort", "try_seize_true",
                                               "try_seize_false", "try_seize_aux_true",
                                               "try_seize_aux_false", "aux_work"}]_vars
    /\ [][lifecycle # "Idle" /\ lifecycle' = "Idle" /\ last_op' = "abort" =>
            lifecycle = "Staged"]_vars

\* A staging was ended and committed, with other contexts waiting for the
\* permission, and the holder has not released it yet.
C18_Witness ==
    /\ last_op = "commit"
    /\ lifecycle = "Idle"
    /\ code_writing_process # NULL
    /\ code_write_queue \cap Procs # {}
    /\ code_write_queue \cap AuxWorks # {}
    /\ ENABLED erts_release_code_write_permission

\* C20: the active and the staging index are code indices, 0, 1 or 2: each is
\* below ERTS_NUM_CODE_IX, inside the addresses array of either build, and never
\* the extra slot ERTS_SAVE_CALLS_CODE_IX (3) of the BEAMASM build.
C20_IndicesInBounds ==
    \A ix \in {erts_active_code_ix, erts_staging_code_ix} :
        /\ ix \in {0, 1, 2}
        /\ ix \in CodeIx
        /\ ix < ERTS_NUM_CODE_IX
        /\ \A beamasm \in BOOLEAN : ix < ERTS_ADDRESSV_SIZE(beamasm)
        /\ ix # ERTS_SAVE_CALLS_CODE_IX
        /\ ERTS_SAVE_CALLS_CODE_IX = 3

\* After two commits the highest code index, 2, has been the staging index and is
\* the active one, and the staging index has wrapped to 0 or 1.
C20_Witness ==
    /\ erts_active_code_ix = ERTS_NUM_CODE_IX - 1
    /\ before_commit # <<>>
    /\ before_commit[2] = ERTS_NUM_CODE_IX - 1
    /\ erts_staging_code_ix < erts_active_code_ix

====
